---------------------------- MODULE Spec2Model ----------------------------
(***************************************************************************)
(* Form validators of horizon.framework.util.validators                    *)
(* (src/horizon/static/framework/util/validators/validators.js):           *)
(*   validateNumberMax / validateNumberMin  bound checks,                  *)
(*   notBlank                               non-empty rule,                *)
(*   hzPasswordMatch                        cross-field match rule.        *)
(*                                                                         *)
(* The directives are link functions that hook into the ngModelController  *)
(* of the element they sit on.  The controller's value pipeline            *)
(* ($setViewValue with $parsers, the model watch with $formatters),        *)
(* $setValidity, $isEmpty, attribute interpolation with $observe, and      *)
(* scope.$eval are the host framework's; they are modelled here by their   *)
(* documented contract, at the places the directives call them.            *)
(*                                                                         *)
(* JavaScript values are records [t, n, s]: t the type tag, n the number   *)
(* (for t = "number"), s the characters (for t = "string").                *)
(***************************************************************************)
EXTENDS Integers, Sequences, FiniteSets

\* ------------------------------------------------------------- bounds
\* Longest string typed into, or assigned to, a field.
MaxLen == 2
\* Largest number used as a threshold or as a model value.
MaxNum == 2

\* ------------------------------------------------------------- values
Undefined == [t |-> "undefined", n |-> 0, s |-> <<>>]
Null      == [t |-> "null",      n |-> 0, s |-> <<>>]
NaN       == [t |-> "NaN",       n |-> 0, s |-> <<>>]
Num(k)    == [t |-> "number",    n |-> k, s |-> <<>>]
Str(cs)   == [t |-> "string",    n |-> 0, s |-> cs]

\* Characters a user types: a digit and a letter.
Chars == {"1", "a"}

SeqsUpTo(k) == UNION {[1..i -> Chars] : i \in 0..k}

\* Strings an input element can hold (the displayed value is always a string).
ViewStrings == {Str(cs) : cs \in SeqsUpTo(MaxLen)}

\* Values a program can assign to a bound model.
ModelValues == {Undefined, Null, NaN} \cup {Num(k) : k \in 0..MaxNum} \cup ViewStrings

\* Values a program can assign to the scope variable a threshold attribute
\* interpolates ({$ maxNumber $}).
ThresholdValues == {Undefined, Null} \cup {Num(k) : k \in 0..MaxNum}

\* ------------------------------------------------- JavaScript operators
Digits == <<"0", "1", "2", "3", "4", "5", "6", "7", "8", "9">>

IsDigit(c) == \E i \in 1..Len(Digits) : Digits[i] = c

DigitVal(c) == (CHOOSE i \in 1..Len(Digits) : Digits[i] = c) - 1

\* Code-unit order of the characters, for string/string comparison.
CharOrder == Digits \o <<"a">>

CharCode(c) == CHOOSE i \in 1..Len(CharOrder) : CharOrder[i] = c

RECURSIVE DecimalValue(_)
DecimalValue(cs) ==
    IF cs = <<>> THEN 0
    ELSE DecimalValue(SubSeq(cs, 1, Len(cs) - 1)) * Len(Digits) + DigitVal(cs[Len(cs)])

\* ToNumber: [nan, n].  undefined -> NaN, null -> 0, "" -> 0, digits -> their
\* decimal value, any other string -> NaN.
ToNumber(v) ==
    CASE v.t = "undefined" -> [nan |-> TRUE,  n |-> 0]
      [] v.t = "NaN"       -> [nan |-> TRUE,  n |-> 0]
      [] v.t = "null"      -> [nan |-> FALSE, n |-> 0]
      [] v.t = "number"    -> [nan |-> FALSE, n |-> v.n]
      [] v.t = "string"    ->
            IF \A i \in 1..Len(v.s) : IsDigit(v.s[i])
            THEN [nan |-> FALSE, n |-> DecimalValue(v.s)]
            ELSE [nan |-> TRUE,  n |-> 0]

RECURSIVE LexLess(_, _)
LexLess(a, b) ==
    IF b = <<>> THEN FALSE
    ELSE IF a = <<>> THEN TRUE
    ELSE IF CharCode(a[1]) # CharCode(b[1]) THEN CharCode(a[1]) < CharCode(b[1])
    ELSE LexLess(Tail(a), Tail(b))

\* a < b: two strings compare by code units, anything else as numbers, and a
\* comparison with NaN is false.
JsLess(a, b) ==
    IF a.t = "string" /\ b.t = "string" THEN LexLess(a.s, b.s)
    ELSE LET x == ToNumber(a)
             y == ToNumber(b)
         IN  ~x.nan /\ ~y.nan /\ x.n < y.n

\* a > b is b < a.
JsGreater(a, b) == JsLess(b, a)

\* a === b: same type and value; NaN equals nothing.
StrictEquals(a, b) == a.t # "NaN" /\ b.t # "NaN" /\ a = b

\* angular.isDefined
isDefined(v) == v.t # "undefined"

\* ngModelController.$isEmpty
isEmpty(v) == v.t \in {"undefined", "null", "NaN"} \/ v = Str(<<>>)

RECURSIVE NumToChars(_)
NumToChars(k) ==
    IF k < Len(Digits) THEN <<Digits[k + 1]>>
    ELSE NumToChars(k \div Len(Digits)) \o <<Digits[(k % Len(Digits)) + 1]>>

\* The text of an interpolated attribute {$ x $}: "" for undefined and null,
\* the decimal digits for a number.
interpolate(v) ==
    IF v.t = "number" THEN Str(NumToChars(v.n))
    ELSE IF v.t = "string" THEN v
    ELSE Str(<<>>)

\* scope.$eval of an attribute's text: the empty expression is undefined, a
\* numeric literal is its number, anything else does not name a scope value.
eval(text) ==
    IF text.s = <<>> THEN Undefined
    ELSE IF \A i \in 1..Len(text.s) : IsDigit(text.s[i]) THEN Num(DecimalValue(text.s))
    ELSE Undefined

\* ---------------------------------------------------------------- pages
\* A page (template) places the directives on its input elements:
\*   "quota"     <input type="text" ng-model="quota"
\*                      validate-number-max="{$ maxNumber $}"
\*                      validate-number-min="{$ minNumber $}">
\*   "name"      <input type="text" ng-model="name" not-blank>
\*   "password"  <input type="password" id="psw" name="psw" ng-model="psw">
\*               <input type="password" ng-model="cnf" hz-password-match="form.psw">
\* A directive reads and writes only the controller of its own element (and,
\* for hzPasswordMatch, reads the controller it is pointed at), so the pages are
\* explored one at a time: Init picks the page.
Templates == {"quota", "name", "password"}

Fields == {"quota", "name", "psw", "cnf"}

\* The fields of a page, in document order.
TemplateFields(t) ==
    CASE t = "quota"    -> <<"quota">>
      [] t = "name"     -> <<"name">>
      [] t = "password" -> <<"psw", "cnf">>

\* The interpolated attributes of a page and the scope variable each reads.
ThresholdVars == {"maxNumber", "minNumber"}

Attrs == <<"validateNumberMax", "validateNumberMin">>

AttrVar(a) == IF a = "validateNumberMax" THEN "maxNumber" ELSE "minNumber"

TemplateAttrs(t) == IF t = "quota" THEN Attrs ELSE <<>>

\* Names of the validity flags the directives set.
Keys == {"validateNumberMax", "validateNumberMin", "notBlank", "match"}

VARIABLES
    template,    \* the page that was compiled and linked
    booted,      \* the first digest after linking has run
    scope,       \* scope variable -> value (bound models and thresholds)
    attrs,       \* interpolated attribute -> its current text
    viewValue,   \* field -> ctrl.$viewValue
    modelValue,  \* field -> ctrl.$modelValue
    error,       \* field -> keys currently invalid (ctrl.$error)
    writes,      \* <<field, key>> of every ctrl.$setValidity call made so far
    last         \* the operation that produced this state

vars == <<template, booted, scope, attrs, viewValue, modelValue, error, writes, last>>

\* The mutable part of the program, threaded through the handlers.
State == [scope |-> scope, attrs |-> attrs, viewValue |-> viewValue,
          modelValue |-> modelValue, error |-> error, writes |-> writes]

\* ctrl.$setValidity(key, isValid) on field f.
setValidity(st, f, key, isValid) ==
    [st EXCEPT !.error[f] = IF isValid THEN @ \ {key} ELSE @ \cup {key},
               !.writes   = @ \cup {<<f, key>>}]

\* ------------------------------------------------------------ directives
\* Variant: the comparison is >= instead of >.
maxValidatorGE(st, f, value) ==
    LET max == eval(st.attrs["validateNumberMax"])
    IN  [st  |-> setValidity(st, f, "validateNumberMax",
                     ~(isDefined(max) /\ ~isEmpty(value) /\ ~JsLess(value, max))),
         ret |-> value]

\* Variant: an out-of-range value is withheld (undefined is returned).
maxValidatorClearing(st, f, value) ==
    LET max == eval(st.attrs["validateNumberMax"])
        bad == isDefined(max) /\ ~isEmpty(value) /\ JsGreater(value, max)
    IN  [st  |-> setValidity(st, f, "validateNumberMax", ~bad),
         ret |-> IF bad THEN Undefined ELSE value]

\* validateNumberMax: the validator pushed on $parsers and $formatters.
maxValidator(st, f, value) ==
    LET max == eval(st.attrs["validateNumberMax"])
    IN  [st  |-> setValidity(st, f, "validateNumberMax",
                     ~(isDefined(max) /\ ~isEmpty(value) /\ JsGreater(value, max))),
         ret |-> value]

\* Variant: the comparison is <= instead of <.
minValidatorLE(st, f, value) ==
    LET min == eval(st.attrs["validateNumberMin"])
    IN  [st  |-> setValidity(st, f, "validateNumberMin",
                     ~(isDefined(min) /\ ~isEmpty(value) /\ ~JsGreater(value, min))),
         ret |-> value]

\* Variant: the $isEmpty test is missing.
minValidatorNoEmptyCheck(st, f, value) ==
    LET min == eval(st.attrs["validateNumberMin"])
    IN  [st  |-> setValidity(st, f, "validateNumberMin",
                     ~(isDefined(min) /\ JsLess(value, min))),
         ret |-> value]

\* validateNumberMin: the validator pushed on $parsers and $formatters.
minValidator(st, f, value) ==
    LET min == eval(st.attrs["validateNumberMin"])
    IN  [st  |-> setValidity(st, f, "validateNumberMin",
                     ~(isDefined(min) /\ ~isEmpty(value) /\ JsLess(value, min))),
         ret |-> value]

\* Variant: a blank value is flagged but still passed on to the model.
notBlankPassThrough(st, f, viewVal) ==
    [st |-> setValidity(st, f, "notBlank", Len(viewVal.s) # 0), ret |-> viewVal]

\* notBlank: the parser put at the head of $parsers.  viewValue.length is the
\* length of the string.
notBlank(st, f, viewVal) ==
    IF Len(viewVal.s) # 0
    THEN [st |-> setValidity(st, f, "notBlank", TRUE),  ret |-> viewVal]
    ELSE [st |-> setValidity(st, f, "notBlank", FALSE), ret |-> Undefined]

\* Variant: the mismatch is flagged on both fields.
passwordCheckBoth(st) ==
    LET match == StrictEquals(st.modelValue["cnf"], st.modelValue["psw"])
    IN  setValidity(setValidity(st, "cnf", "match", match), "psw", "match", match)

\* hzPasswordMatch: ctrl is the confirmation field, scope.pw the password field.
passwordCheck(st) ==
    LET match == StrictEquals(st.modelValue["cnf"], st.modelValue["psw"])
    IN  setValidity(st, "cnf", "match", match)

\* What each link function registers on its field's controller.
Parsers(f) ==
    CASE f = "quota" -> <<"maxValidator", "minValidator">>
      [] f = "name"  -> <<"notBlank">>
      [] OTHER       -> <<>>

\* Variant: notBlank is also pushed on $formatters.
FormattersWithNotBlank(f) ==
    CASE f = "quota" -> <<"maxValidator", "minValidator">>
      [] f = "name"  -> <<"notBlank">>
      [] OTHER       -> <<>>

\* Variant: the bound checks are pushed on $parsers only.
FormattersNone(f) == <<>>

Formatters(f) ==
    CASE f = "quota" -> <<"maxValidator", "minValidator">>
      [] OTHER       -> <<>>

\* Variant: only the confirmation field's events are listened to.
MatchListenersDependentOnly == {"cnf"}

\* The fields whose 'keyup change' events run passwordCheck.
MatchListeners == {"psw", "cnf"}

Call(fn, st, f, value) ==
    CASE fn = "maxValidator" -> maxValidator(st, f, value)
      [] fn = "minValidator" -> minValidator(st, f, value)
      [] fn = "notBlank"     -> notBlank(st, f, value)

\* ------------------------------------------------------- ngModelController
\* $parsers run first to last; a parser that returns undefined ends the run.
RECURSIVE RunParsers(_, _, _, _)
RunParsers(st, f, value, i) ==
    IF i > Len(Parsers(f)) THEN [st |-> st, ret |-> value]
    ELSE LET r == Call(Parsers(f)[i], st, f, value)
         IN  IF ~isDefined(r.ret) THEN r
             ELSE RunParsers(r.st, f, r.ret, i + 1)

\* $formatters run last to first.
RECURSIVE RunFormatters(_, _, _, _)
RunFormatters(st, f, value, i) ==
    IF i = 0 THEN [st |-> st, ret |-> value]
    ELSE LET r == Call(Formatters(f)[i], st, f, value)
         IN  RunFormatters(r.st, f, r.ret, i - 1)

\* ctrl.$setViewValue(value): the view-to-model direction.
setViewValue(st, f, value) ==
    LET r   == RunParsers([st EXCEPT !.viewValue[f] = value], f, value, 1)
        st2 == [r.st EXCEPT !.modelValue[f] = r.ret]
    IN  IF ~StrictEquals(r.ret, st.modelValue[f])
        THEN [st2 EXCEPT !.scope[f] = r.ret]
        ELSE st2

\* The controller's watch of its model expression: the model-to-view direction.
ngModelWatch(st, f) ==
    LET mv == st.scope[f]
    IN  IF ~StrictEquals(mv, st.modelValue[f])
           /\ (st.modelValue[f].t # "NaN" \/ mv.t # "NaN")
        THEN LET r == RunFormatters([st EXCEPT !.modelValue[f] = mv], f, mv,
                                    Len(Formatters(f)))
             IN  [r.st EXCEPT !.viewValue[f] = r.ret]
        ELSE st

\* Variant: the attribute is not observed.
observerNever(st, a) == st

\* The function given to attrs.$observe for attribute a of the quota field.
observer(st, a) ==
    IF a = "validateNumberMax"
    THEN maxValidator(st, "quota", st.modelValue["quota"]).st
    ELSE minValidator(st, "quota", st.modelValue["quota"]).st

\* The watch of an interpolated attribute: a changed text is stored and observed.
interpolationWatch(st, a) ==
    LET text == interpolate(st.scope[AttrVar(a)])
    IN  IF text # st.attrs[a]
        THEN observer([st EXCEPT !.attrs[a] = text], a)
        ELSE st

RECURSIVE WatchModels(_, _, _)
WatchModels(st, fs, i) ==
    IF i > Len(fs) THEN st ELSE WatchModels(ngModelWatch(st, fs[i]), fs, i + 1)

RECURSIVE WatchAttrs(_, _, _)
WatchAttrs(st, as, i) ==
    IF i > Len(as) THEN st ELSE WatchAttrs(interpolationWatch(st, as[i]), as, i + 1)

RECURSIVE ObserveAll(_, _, _)
ObserveAll(st, as, i) ==
    IF i > Len(as) THEN st ELSE ObserveAll(observer(st, as[i]), as, i + 1)

\* scope.$digest: the model watches, then the attribute watches.  Nothing a
\* watch does changes what another watch reads, so one pass reaches the fixpoint.
digest(st, t) == WatchAttrs(WatchModels(st, TemplateFields(t), 1), TemplateAttrs(t), 1)

\* ---------------------------------------------------------------- actions
\* The record of an operation: what it was, on which field, with which input,
\* the flags of the field it can flag before it ran and, for the field whose
\* rule can withhold a value from the model, the model value before it ran.
Op(op, f, arg, target) ==
    [op |-> op, f |-> f, arg |-> arg,
     prevModel |-> IF f = "name" THEN modelValue[f] ELSE Undefined,
     prevError |-> IF target \in Fields THEN error[target] ELSE {}]

Commit(st) ==
    /\ scope'      = st.scope
    /\ attrs'      = st.attrs
    /\ viewValue'  = st.viewValue
    /\ modelValue' = st.modelValue
    /\ error'      = st.error
    /\ writes'     = st.writes

\* The scope a page starts with: any value in each bound model and threshold of
\* the page; what the page does not use is undefined.
ScopeOf(q, n, p, c, mx, mn) ==
    [x \in Fields \cup ThresholdVars |->
        CASE x = "quota"     -> q
          [] x = "name"      -> n
          [] x = "psw"       -> p
          [] x = "cnf"       -> c
          [] x = "maxNumber" -> mx
          [] x = "minNumber" -> mn]

InitialScopes(t) ==
    CASE t = "quota" ->
            {ScopeOf(q, Undefined, Undefined, Undefined, mx, mn) :
                q \in ModelValues, mx \in ThresholdValues, mn \in ThresholdValues}
      [] t = "name" ->
            {ScopeOf(Undefined, n, Undefined, Undefined, Undefined, Undefined) :
                n \in ModelValues}
      [] t = "password" ->
            {ScopeOf(Undefined, Undefined, p, c, Undefined, Undefined) :
                p \in ModelValues, c \in ModelValues}

\* After linking: every controller holds NaN, no flag is set, the interpolated
\* attributes hold their first text, and each observer awaits its first call.
Init ==
    /\ template \in Templates
    /\ booted = FALSE
    /\ scope \in InitialScopes(template)
    /\ attrs = [a \in {"validateNumberMax", "validateNumberMin"} |->
                  interpolate(scope[AttrVar(a)])]
    /\ viewValue  = [f \in Fields |-> NaN]
    /\ modelValue = [f \in Fields |-> NaN]
    /\ error      = [f \in Fields |-> {}]
    /\ writes     = {}
    /\ last       = [op |-> "link", f |-> "", arg |-> Undefined,
                     prevModel |-> Undefined, prevError |-> {}]

\* The first digest: each observer is called once, then the watches run.
Bootstrap ==
    /\ ~booted
    /\ booted' = TRUE
    /\ Commit(digest(ObserveAll(State, TemplateAttrs(template), 1), template))
    /\ last' = Op("bootstrap", "", Undefined, "")
    /\ UNCHANGED template

InTemplate(f) == \E i \in 1..Len(TemplateFields(template)) : TemplateFields(template)[i] = f

\* The user edits field f: the input listener sets the view value, then digests.
Input(f, s) ==
    /\ booted
    /\ InTemplate(f)
    /\ Commit(digest(setViewValue(State, f, s), template))
    /\ last' = Op("input", f, s, f)
    /\ UNCHANGED <<template, booted>>

\* The program assigns v to the model of field f, then digests.
SetModel(f, v) ==
    /\ booted
    /\ InTemplate(f)
    /\ Commit(digest([State EXCEPT !.scope[f] = v], template))
    /\ last' = Op("model", f, v, IF f = "psw" THEN "cnf" ELSE f)
    /\ UNCHANGED <<template, booted>>

\* The program assigns v to the scope variable of a threshold, then digests.
SetThreshold(x, v) ==
    /\ booted
    /\ template = "quota"
    /\ Commit(digest([State EXCEPT !.scope[x] = v], template))
    /\ last' = Op("threshold", "quota", v, "quota")
    /\ UNCHANGED <<template, booted>>

\* A keyup or change event on field f of the password page: the listener, if
\* the element has one, runs inside scope.$apply, which digests afterwards.
KeyupChange(f) ==
    /\ booted
    /\ template = "password"
    /\ InTemplate(f)
    /\ Commit(digest(IF f \in MatchListeners THEN passwordCheck(State) ELSE State,
                     template))
    /\ last' = Op("event", f, Undefined, "cnf")
    /\ UNCHANGED <<template, booted>>

Next ==
    \/ Bootstrap
    \/ \E f \in Fields, s \in ViewStrings : Input(f, s)
    \/ \E f \in Fields, v \in ModelValues : SetModel(f, v)
    \/ \E x \in ThresholdVars, v \in ThresholdValues : SetThreshold(x, v)
    \/ \E f \in Fields : KeyupChange(f)

Spec == Init /\ [][Next]_vars

\* ------------------------------------------------------------- properties
Invalid(f, key) == key \in error[f]

\* The thresholds the validators read: the attribute's text, evaluated.
MaxNow == eval(attrs["validateNumberMax"])
MinNow == eval(attrs["validateNumberMin"])

\* The last operation ran the bound checks of the quota field.
QuotaEvaluated ==
    /\ template = "quota"
    /\ last.op \in {"bootstrap", "input", "model", "threshold"}

\* The value the bound checks were last given: the typed or assigned value, or
\* the controller's model value when the threshold or the first digest ran them.
EvaluatedValue ==
    IF last.op \in {"input", "model"} THEN last.arg ELSE modelValue["quota"]

\* C1: after an evaluation of validateNumberMax on v with threshold m, the
\* flag is invalid iff v is defined, not empty and v > m.
C1_MaxInvalidIffGreater ==
    QuotaEvaluated =>
        (Invalid("quota", "validateNumberMax") <=>
            (/\ isDefined(EvaluatedValue)
             /\ ~isEmpty(EvaluatedValue)
             /\ JsGreater(EvaluatedValue, MaxNow)))

\* The typed "11" exceeds the threshold 2 and is flagged.
C1_Witness ==
    /\ template = "quota"
    /\ last.op = "input"
    /\ last.arg = Str(<<"1", "1">>)
    /\ MaxNow = Num(2)
    /\ Invalid("quota", "validateNumberMax")

\* C2: after an evaluation of validateNumberMin on v with threshold m, the
\* flag is invalid iff v is defined, not empty and v < m.
C2_MinInvalidIffLess ==
    QuotaEvaluated =>
        (Invalid("quota", "validateNumberMin") <=>
            (/\ isDefined(EvaluatedValue)
             /\ ~isEmpty(EvaluatedValue)
             /\ JsLess(EvaluatedValue, MinNow)))

\* The assigned number 1 is below the threshold 2 and is flagged.
C2_Witness ==
    /\ template = "quota"
    /\ last.op = "model"
    /\ last.arg = Num(1)
    /\ MinNow = Num(2)
    /\ Invalid("quota", "validateNumberMin")

\* C3: when the displayed value of the notBlank field is parsed, a value of
\* length zero sets the flag invalid and leaves the model unset; any other
\* value sets the flag valid and becomes the model value.
C3_NotBlankParse ==
    (last.op = "input" /\ last.f = "name") =>
        IF Len(last.arg.s) = 0
        THEN /\ Invalid("name", "notBlank")
             /\ modelValue["name"] = Undefined
             /\ scope["name"] = Undefined
        ELSE /\ ~Invalid("name", "notBlank")
             /\ modelValue["name"] = last.arg
             /\ scope["name"] = last.arg

\* The model held "a"; the field was cleared; the model is unset.
C3_Witness ==
    /\ last.op = "input"
    /\ last.f = "name"
    /\ last.arg = Str(<<>>)
    /\ last.prevModel = Str(<<"a">>)
    /\ modelValue["name"] = Undefined
    /\ Invalid("name", "notBlank")

\* C4: after a keyup or change event on the confirmation field or on the
\* password field, the confirmation field's match flag is valid iff the two
\* model values are strictly equal.
C4_MatchAfterEvent ==
    last.op = "event" =>
        (~Invalid("cnf", "match") <=> StrictEquals(modelValue["cnf"], modelValue["psw"]))

\* An event on the password field alone turned the flag invalid.
C4_Witness ==
    /\ last.op = "event"
    /\ last.f = "psw"
    /\ "match" \notin last.prevError
    /\ Invalid("cnf", "match")
    /\ modelValue["cnf"] = Str(<<"a">>)
    /\ modelValue["psw"] = Str(<<"a", "1">>)

\* C5: once the page runs, the max and min flags always reflect the bound
\* check of the field's current model value against the current value of the
\* threshold expression, whichever of the three triggers ran last.
C5_BoundFlagsTrackValueAndThreshold ==
    (template = "quota" /\ booted) =>
        LET v   == modelValue["quota"]
            max == eval(interpolate(scope["maxNumber"]))
            min == eval(interpolate(scope["minNumber"]))
        IN  /\ Invalid("quota", "validateNumberMax") <=>
                  (isDefined(max) /\ ~isEmpty(v) /\ JsGreater(v, max))
            /\ Invalid("quota", "validateNumberMin") <=>
                  (isDefined(min) /\ ~isEmpty(v) /\ JsLess(v, min))

\* A change of the threshold alone turned the max flag invalid.
C5_Witness ==
    /\ template = "quota"
    /\ last.op = "threshold"
    /\ "validateNumberMax" \notin last.prevError
    /\ Invalid("quota", "validateNumberMax")

\* C6: a bound check changes nothing but its flag: a typed value becomes the
\* model value as typed, an assigned value becomes the displayed value as
\* assigned, and a threshold change leaves both values as they were, whether
\* the check passes or fails.
C6_BoundCheckKeepsValue ==
    [][template = "quota" =>
          /\ last'.op \in {"input", "model"} =>
                /\ viewValue'["quota"]  = last'.arg
                /\ modelValue'["quota"] = last'.arg
                /\ scope'["quota"]      = last'.arg
          /\ last'.op = "threshold" =>
                /\ viewValue'["quota"]  = viewValue["quota"]
                /\ modelValue'["quota"] = modelValue["quota"]
                /\ scope'["quota"]      = scope["quota"]
          /\ last'.op = "bootstrap" =>
                /\ viewValue'["quota"]  = scope["quota"]
                /\ modelValue'["quota"] = scope["quota"]
                /\ scope'["quota"]      = scope["quota"]]_vars

\* The typed "11" fails the max check and is the model value all the same.
C6_Witness ==
    /\ template = "quota"
    /\ last.op = "input"
    /\ Invalid("quota", "validateNumberMax")
    /\ viewValue["quota"] = Str(<<"1", "1">>)
    /\ modelValue["quota"] = Str(<<"1", "1">>)
    /\ scope["quota"] = Str(<<"1", "1">>)

\* C7: the match rule never sets a flag of the password field; only the
\* confirmation field can be flagged.
C7_ReferenceNeverFlagged ==
    /\ error["psw"] = {}
    /\ \A w \in writes : w[2] = "match" => w[1] = "cnf"

\* A mismatch found on an event of the password field flags the confirmation
\* field only.
C7_Witness ==
    /\ last.op = "event"
    /\ last.f = "psw"
    /\ Invalid("cnf", "match")
    /\ <<"cnf", "match">> \in writes
    /\ error["psw"] = {}

\* C8: with the threshold unset (undefined or null), or with an empty value
\* (undefined, null, NaN, ""), the flag of either bound check is valid.
C8_UnsetThresholdOrEmptyValueIsValid ==
    (template = "quota" /\ booted) =>
        /\ (scope["maxNumber"] \in {Undefined, Null} \/ isEmpty(modelValue["quota"]))
              => ~Invalid("quota", "validateNumberMax")
        /\ (scope["minNumber"] \in {Undefined, Null} \/ isEmpty(modelValue["quota"]))
              => ~Invalid("quota", "validateNumberMin")

\* The threshold was unset while the flag was invalid; the flag is valid.
C8_Witness ==
    /\ template = "quota"
    /\ last.op = "threshold"
    /\ scope["maxNumber"] = Undefined
    /\ "validateNumberMax" \in last.prevError
    /\ ~Invalid("quota", "validateNumberMax")
    /\ modelValue["quota"] = Str(<<"1", "1">>)

\* The operations that re-evaluate a flag.  The first digest delivers the
\* initial model value through the formatters and the initial threshold to the
\* observer, so it is a trigger of the bound checks.
Trigger(key, op) ==
    CASE key \in {"validateNumberMax", "validateNumberMin"} ->
            op.op = "bootstrap" \/ (op.op \in {"input", "model", "threshold"} /\ op.f = "quota")
      [] key = "notBlank" -> op.op = "input" /\ op.f = "name"
      [] key = "match"    -> op.op = "event" /\ op.f \in {"psw", "cnf"}

\* C9: every flag is valid until its rule is first evaluated, and changes
\* only in a step that is one of its rule's triggers.
C9_FlagsChangeOnlyOnTriggers ==
    /\ [](~booted => \A f \in Fields : error[f] = {})
    /\ [][\A f \in Fields, key \in Keys :
             ((key \in error'[f]) # (key \in error[f])) => Trigger(key, last')]_vars

\* The match flag was turned invalid by an event.
C9_Witness ==
    /\ last.op = "event"
    /\ "match" \notin last.prevError
    /\ Invalid("cnf", "match")

\* C10: a programmatic change of a model value leaves the notBlank and match
\* flags as they were, and re-evaluates the max and min flags on the new value.
C10_ModelChangeAsymmetry ==
    [][last'.op = "model" =>
          /\ ("notBlank" \in error'["name"]) <=> ("notBlank" \in error["name"])
          /\ ("match" \in error'["cnf"]) <=> ("match" \in error["cnf"])
          /\ template = "quota" =>
                /\ ("validateNumberMax" \in error'["quota"]) <=>
                      (/\ isDefined(MaxNow)
                       /\ ~isEmpty(last'.arg)
                       /\ JsGreater(last'.arg, MaxNow))
                /\ ("validateNumberMin" \in error'["quota"]) <=>
                      (/\ isDefined(MinNow)
                       /\ ~isEmpty(last'.arg)
                       /\ JsLess(last'.arg, MinNow))]_vars

\* The program replaced the model "a" by ""; the notBlank flag is still valid.
C10_Witness ==
    /\ last.op = "model"
    /\ last.f = "name"
    /\ last.prevModel = Str(<<"a">>)
    /\ modelValue["name"] = Str(<<>>)
    /\ ~Invalid("name", "notBlank")

=============================================================================
